---- MODULE Spec2Model ----
(***************************************************************************)
(* Model of the search subsystem of the snippet organizer:                 *)
(*   src/src/core/search/advanced_search_engine.py  (AdvancedSearchEngine) *)
(*   src/src/core/search/fts5_manager.py            (FTS5Manager)          *)
(* A Python string is a sequence of one-character strings; a value that    *)
(* may be None is None (the empty tuple) or Some(v) (a one-element tuple). *)
(* A Python call is an operator that yields an outcome record              *)
(*   [exc, val, calls]: the exception that escaped it (None when it        *)
(* returned), the value it returned, and the collaborator calls it made,   *)
(* in order.                                                               *)
(***************************************************************************)
EXTENDS Integers, Sequences, FiniteSets, TLC

VARIABLES
    items,      \* the items table: row id -> row
    categories_tbl, \* the categories table: row id -> row
    item_tags,  \* item id -> ordered tag names (what get_tags_by_item returns)
    items_fts,  \* row ids present in the items_fts full-text index
    pc,         \* the caller: "idle" or "returned"
    request,    \* the public call in progress / last made
    alerts,     \* the alerts table: alert id -> [item_id, status]
    alert_history,   \* the alert history table: alert ids, in order of insertion
    emitted,    \* alert id -> number of alert_triggered signals emitted for it
    is_running, \* AlertService.is_running
    alerts_checked,  \* AlertService.alerts_checked
    alerts_triggered, \* AlertService.alerts_triggered
    alert_log,  \* what the last check_alerts run did, in order
    response    \* its outcome: [exc, val, calls]

vars == <<items, categories_tbl, item_tags, items_fts, pc, request, response,
          alerts, alert_history, emitted, is_running, alerts_checked,
          alerts_triggered, alert_log>>

----------------------------------------------------------------------------
(* Bounds of the model *)

NumItems == 2
MaxLimit == 2
MaxOffset == 1
NumAlerts == 2
MaxChecks == 3

----------------------------------------------------------------------------
(* Python values *)

None == <<>>
Some(v) == <<v>>
IsNone(o) == o = <<>>
Val(o) == o[1]

Range(s) == {s[k] : k \in 1..Len(s)}

\* Python truthiness of an optional list / string: None and empty are falsy
Truthy(o) == ~IsNone(o) /\ Val(o) # <<>>

----------------------------------------------------------------------------
(* Strings *)

Whitespace == {" "}
Letters == {"a", "b", "A", "B"}

\* LOWER() of SQLite / the lowercasing of the unicode61 tokenizer
LowerChar(c) == IF c = "A" THEN "a" ELSE IF c = "B" THEN "b" ELSE c
Lower(s) == [k \in 1..Len(s) |-> LowerChar(s[k])]

\* str.strip()
RECURSIVE LStrip(_)
LStrip(s) == IF s # <<>> /\ Head(s) \in Whitespace THEN LStrip(Tail(s)) ELSE s
RECURSIVE RStrip(_)
RStrip(s) ==
    IF s # <<>> /\ s[Len(s)] \in Whitespace
    THEN RStrip(SubSeq(s, 1, Len(s) - 1)) ELSE s
Strip(s) == RStrip(LStrip(s))

\* SQL LIKE: % matches any run of characters, _ any one character
RECURSIVE Like(_, _)
Like(s, p) ==
    IF p = <<>> THEN s = <<>>
    ELSE IF Head(p) = "%"
         THEN Like(s, Tail(p)) \/ (s # <<>> /\ Like(Tail(s), p))
         ELSE /\ s # <<>>
              /\ (Head(p) = "_" \/ Head(p) = Head(s))
              /\ Like(Tail(s), Tail(p))

\* The words of a text: maximal runs of letters, lowercased (unicode61)
RECURSIVE Words(_, _)
Words(s, cur) ==
    IF s = <<>> THEN (IF cur = <<>> THEN {} ELSE {cur})
    ELSE IF Head(s) \in Letters
         THEN Words(Tail(s), Append(cur, LowerChar(Head(s))))
         ELSE (IF cur = <<>> THEN {} ELSE {cur}) \cup Words(Tail(s), <<>>)
Tokens(s) == Words(s, <<>>)

IsPrefix(p, s) == Len(p) <= Len(s) /\ SubSeq(s, 1, Len(p)) = p

----------------------------------------------------------------------------
(* The store: the rows the storage collaborator holds *)

ItemIds == 1..NumItems

S_a == <<"a">>
S_b == <<"b">>
S_ab == <<"a", "b">>
S_Ab == <<"A", "b">>
S_a_b == <<"a", " ", "b">>

\* The item rows a store is drawn from; `tags` is the item's tag relation
ItemPool == {
    [label |-> S_ab, content |-> <<>>, type |-> "CODE", category_id |-> Some(1),
     is_favorite |-> 1, is_sensitive |-> 0, use_count |-> 5, last_used |-> Some(3),
     created_at |-> 5, is_active |-> 1, tags |-> <<S_b>>],
    [label |-> S_a_b, content |-> S_a, type |-> "URL", category_id |-> Some(2),
     is_favorite |-> 0, is_sensitive |-> 1, use_count |-> 9, last_used |-> None,
     created_at |-> 1, is_active |-> 1, tags |-> <<>>],
    [label |-> S_Ab, content |-> S_a, type |-> "CODE", category_id |-> Some(1),
     is_favorite |-> 1, is_sensitive |-> 0, use_count |-> 7, last_used |-> Some(2),
     created_at |-> 5, is_active |-> 0, tags |-> <<S_a>>],
    [label |-> S_b, content |-> S_ab, type |-> "TEXT", category_id |-> None,
     is_favorite |-> 1, is_sensitive |-> 0, use_count |-> 2, last_used |-> Some(3),
     created_at |-> 9, is_active |-> 1, tags |-> <<S_a, S_b>>]
}

\* Rows that tie on use_count and differ in last_used
TiePool == {
    [label |-> S_a, content |-> S_b, type |-> "TEXT", category_id |-> Some(1),
     is_favorite |-> 0, is_sensitive |-> 0, use_count |-> 5, last_used |-> Some(1),
     created_at |-> 5, is_active |-> 1, tags |-> <<>>],
    [label |-> S_a_b, content |-> S_a, type |-> "URL", category_id |-> None,
     is_favorite |-> 0, is_sensitive |-> 0, use_count |-> 5, last_used |-> Some(4),
     created_at |-> 5, is_active |-> 1, tags |-> <<S_a>>]
}

Row(r) ==
    [label |-> r.label, content |-> r.content, type |-> r.type,
     category_id |-> r.category_id, is_favorite |-> r.is_favorite,
     is_sensitive |-> r.is_sensitive, use_count |-> r.use_count,
     last_used |-> r.last_used, created_at |-> r.created_at,
     is_active |-> r.is_active]

----------------------------------------------------------------------------
(* Failures of the storage collaborator *)

ExcTypes == {"OperationalError", "DatabaseError"}

NoFault == [sites |-> {}, step |-> "none", exc |-> "none"]
FaultAt(fault, site, step) == site \in fault.sites /\ fault.step = step

\* the event a failing collaborator call leaves in the call record
Raised(e) == IF e = "OperationalError" THEN "raised OperationalError"
             ELSE "raised DatabaseError"
StorageFailures == {Raised(e) : e \in ExcTypes}

Ok(v, calls) == [exc |-> None, val |-> v, calls |-> calls]

\* the event a strategy leaves in the call record when it returns its rows
FtsReturned(rows) ==
    IF rows = <<>> THEN "fts5 returned no rows" ELSE "fts5 returned rows"
ExactReturned(rows) ==
    IF rows = <<>> THEN "exact returned no rows" ELSE "exact returned rows"
Raise(e, calls) == [exc |-> Some(e), val |-> None, calls |-> calls]

----------------------------------------------------------------------------
(* SQL building blocks *)

\* x IN (?, ?, ...) for a nullable column
InList(col, list) == ~IsNone(col) /\ Val(col) \in Range(list)

\* DATE(col) >= ? / DATE(col) <= ? for a nullable column
DateGe(col, d) == ~IsNone(col) /\ Val(col) >= d
DateLe(col, d) == ~IsNone(col) /\ Val(col) <= d

\* rows of `ids` in the order of `key` ascending, ties by row id
RECURSIVE OrderByKey(_, _)
OrderByKey(ids, key) ==
    IF ids = {} THEN <<>>
    ELSE LET m == CHOOSE x \in ids :
                    \A y \in ids : key[x] < key[y] \/ (key[x] = key[y] /\ x <= y)
         IN <<m>> \o OrderByKey(ids \ {m}, key)

\* (variant: the bound is inclusive, one row more is returned)
Limit_one_more(s, n) ==
    IF n < 0 THEN s ELSE SubSeq(s, 1, IF n + 1 < Len(s) THEN n + 1 ELSE Len(s))

\* LIMIT n (a negative n is no limit)
Limit(s, n) == IF n < 0 THEN s ELSE SubSeq(s, 1, IF n < Len(s) THEN n ELSE Len(s))

\* LIMIT n OFFSET k
LimitOffset(s, n, k) ==
    LET rest == IF k <= 0 THEN s ELSE SubSeq(s, k + 1, Len(s))
    IN Limit(rest, n)

\* dict(zip(columns, row)) plus result_dict['tags'] = get_tags_by_item(id)
ResultDict(i, rank) ==
    [id |-> i, category_id |-> items[i].category_id, label |-> items[i].label,
     content |-> items[i].content, type |-> items[i].type,
     is_favorite |-> items[i].is_favorite, is_sensitive |-> items[i].is_sensitive,
     use_count |-> items[i].use_count, last_used |-> items[i].last_used,
     created_at |-> items[i].created_at, rank_score |-> rank,
     tags |-> item_tags[i]]

----------------------------------------------------------------------------
(* The full-text index (SQLite FTS5 over items_fts) *)

\* characters an FTS5 query of barewords may hold; anything else is a
\* syntax error (sqlite3.OperationalError)
BarewordChars == Letters \cup {"_", " "}
Fts5SyntaxOk(q) == \A k \in 1..Len(q) : q[k] \in BarewordChars

IndexedTokens(i) == Tokens(items[i].label) \cup Tokens(items[i].content)

\* items_fts MATCH ? : every term of the query is a token of the indexed row
Fts5Match(i, q) ==
    /\ i \in items_fts
    /\ Tokens(q) # {}
    /\ \A t \in Tokens(q) : t \in IndexedTokens(i)

\* bm25(items_fts): lower is better; here minus the number of columns hit
Bm25(i, q) ==
    0 - Cardinality({c \in {"label", "content"} :
            \E t \in Tokens(q) : t \in Tokens(items[i][c])})

----------------------------------------------------------------------------
(* FTS5Manager *)

\* except sqlite3.OperationalError: return [], 0.0 -- anything else propagates
fts5_except(e, calls) ==
    IF e = "OperationalError"
    THEN Ok(<<<<>>, 0>>, Append(calls, FtsReturned(<<>>)))
    ELSE Raise(e, calls)

\* (variant: the min_use_count clause is left out)
fts5_where_no_min_use_count(i, query, item_types, categories, is_favorite, is_sensitive, date_from, date_to, min_use_count) ==
    /\ Fts5Match(i, query)
    /\ items[i].is_active = 1
    /\ Truthy(item_types) => items[i].type \in Range(Val(item_types))
    /\ Truthy(categories) => InList(items[i].category_id, Val(categories))
    /\ ~IsNone(is_favorite) =>
            items[i].is_favorite = (IF Val(is_favorite) THEN 1 ELSE 0)
    /\ ~IsNone(is_sensitive) =>
            items[i].is_sensitive = (IF Val(is_sensitive) THEN 1 ELSE 0)
    /\ ~IsNone(date_from) => items[i].created_at >= Val(date_from)
    /\ ~IsNone(date_to) => items[i].created_at <= Val(date_to)

\* the WHERE clause search_with_filters builds
fts5_where(i, query, item_types, categories, is_favorite, is_sensitive, date_from, date_to, min_use_count) ==
    /\ Fts5Match(i, query)
    /\ items[i].is_active = 1
    /\ Truthy(item_types) => items[i].type \in Range(Val(item_types))
    /\ Truthy(categories) => InList(items[i].category_id, Val(categories))
    /\ ~IsNone(is_favorite) =>
            items[i].is_favorite = (IF Val(is_favorite) THEN 1 ELSE 0)
    /\ ~IsNone(is_sensitive) =>
            items[i].is_sensitive = (IF Val(is_sensitive) THEN 1 ELSE 0)
    /\ ~IsNone(date_from) => items[i].created_at >= Val(date_from)
    /\ ~IsNone(date_to) => items[i].created_at <= Val(date_to)
    /\ ~IsNone(min_use_count) => items[i].use_count >= Val(min_use_count)

\* the statement's rows: ORDER BY rank_score LIMIT ?
fts5_filtered_rows(query, item_types, categories, is_favorite, is_sensitive, date_from, date_to, min_use_count, limit) ==
    LET hit == {i \in ItemIds :
                  fts5_where(i, query, item_types, categories, is_favorite,
                             is_sensitive, date_from, date_to, min_use_count)}
    IN Limit(OrderByKey(hit, [i \in hit |-> Bm25(i, query)]), limit)

search_with_filters(query, item_types, categories, is_favorite, is_sensitive, date_from, date_to, min_use_count, limit, fault, dt) ==
    LET c1 == <<"fts5.search_with_filters", "db.connect">>
        c2 == Append(c1, "cursor.execute")
        rows == fts5_filtered_rows(query, item_types, categories, is_favorite,
                    is_sensitive, date_from, date_to, min_use_count, limit)
        c3 == Append(c2, "db.get_tags_by_item")
    IN  IF FaultAt(fault, "fts", "connect")
        THEN Raise(fault.exc, Append(c1, Raised(fault.exc)))
        ELSE IF FaultAt(fault, "fts", "execute")
        THEN fts5_except(fault.exc, Append(c2, Raised(fault.exc)))
        ELSE IF ~Fts5SyntaxOk(query)
        THEN fts5_except("OperationalError",
                         Append(c2, Raised("OperationalError")))
        ELSE IF rows # <<>> /\ FaultAt(fault, "fts", "tags")
        THEN fts5_except(fault.exc, Append(c3, Raised(fault.exc)))
        ELSE Ok(<<[k \in 1..Len(rows) |-> ResultDict(rows[k], Bm25(rows[k], query))],
                  dt>>,
                Append(c2 \o [k \in 1..Len(rows) |-> "db.get_tags_by_item"],
                       FtsReturned(rows)))

\* search_basic: MATCH, active, ORDER BY rank_score LIMIT ? OFFSET ?
search_basic(query, limit, offset, fault, dt) ==
    LET c1 == <<"fts5.search_basic", "db.connect">>
        c2 == Append(c1, "cursor.execute")
        hit == {i \in ItemIds : Fts5Match(i, query) /\ items[i].is_active = 1}
        rows == LimitOffset(OrderByKey(hit, [i \in hit |-> Bm25(i, query)]),
                            limit, offset)
        c3 == Append(c2, "db.get_tags_by_item")
    IN  IF FaultAt(fault, "basic", "connect")
        THEN Raise(fault.exc, Append(c1, Raised(fault.exc)))
        ELSE IF FaultAt(fault, "basic", "execute")
        THEN fts5_except(fault.exc, Append(c2, Raised(fault.exc)))
        ELSE IF ~Fts5SyntaxOk(query)
        THEN fts5_except("OperationalError",
                         Append(c2, Raised("OperationalError")))
        ELSE IF rows # <<>> /\ FaultAt(fault, "basic", "tags")
        THEN fts5_except(fault.exc, Append(c3, Raised(fault.exc)))
        ELSE Ok(<<[k \in 1..Len(rows) |-> ResultDict(rows[k], Bm25(rows[k], query))],
                  dt>>,
                Append(c2 \o [k \in 1..Len(rows) |-> "db.get_tags_by_item"],
                       FtsReturned(rows)))

\* snippet(items_fts, col, '<mark>', '</mark>', '...', n): the text with
\* every word the query matched wrapped in the markers
RECURSIVE Snippet(_, _, _)
Snippet(s, q, cur) ==
    LET flush == IF cur = <<>> THEN <<>>
                 ELSE IF Lower(cur) \in Tokens(q)
                      THEN <<"<mark>">> \o cur \o <<"</mark>">>
                      ELSE cur
    IN  IF s = <<>> THEN flush
        ELSE IF Head(s) \in Letters
             THEN Snippet(Tail(s), q, Append(cur, Head(s)))
             ELSE flush \o <<Head(s)>> \o Snippet(Tail(s), q, <<>>)

\* the statement's rows of search_with_highlighting: MATCH, active, LIMIT
fts5_highlight_rows(query, limit) ==
    LET hit == {i \in ItemIds : Fts5Match(i, query) /\ items[i].is_active = 1}
    IN Limit(OrderByKey(hit, [i \in hit |-> Bm25(i, query)]), limit)

HighlightDict(i, query) ==
    [id |-> i, category_id |-> items[i].category_id, label |-> items[i].label,
     content |-> items[i].content, type |-> items[i].type,
     is_favorite |-> items[i].is_favorite, is_sensitive |-> items[i].is_sensitive,
     use_count |-> items[i].use_count, last_used |-> items[i].last_used,
     label_snippet |-> Snippet(items[i].label, query, <<>>),
     content_snippet |-> Snippet(items[i].content, query, <<>>),
     rank_score |-> Bm25(i, query), tags |-> item_tags[i]]

\* query is what the caller passed: None binds NULL, which matches nothing
fts5_search_with_highlighting(query, context_length, limit, fault, dt) ==
    LET q == IF IsNone(query) THEN <<>> ELSE Val(query)
        c1 == <<"fts5.search_with_highlighting", "db.connect">>
        c2 == Append(c1, "cursor.execute")
        rows == fts5_highlight_rows(q, limit)
        c3 == Append(c2, "db.get_tags_by_item")
    IN  IF FaultAt(fault, "highlight", "connect")
        THEN Raise(fault.exc, Append(c1, Raised(fault.exc)))
        ELSE IF FaultAt(fault, "highlight", "execute")
        THEN fts5_except(fault.exc, Append(c2, Raised(fault.exc)))
        ELSE IF ~Fts5SyntaxOk(q)
        THEN fts5_except("OperationalError",
                         Append(c2, Raised("OperationalError")))
        ELSE IF rows # <<>> /\ FaultAt(fault, "highlight", "tags")
        THEN fts5_except(fault.exc, Append(c3, Raised(fault.exc)))
        ELSE Ok(<<[k \in 1..Len(rows) |-> HighlightDict(rows[k], q)], dt>>,
                Append(c2 \o [k \in 1..Len(rows) |-> "db.get_tags_by_item"],
                       FtsReturned(rows)))

\* f"{field}:{prefix}*" with field = 'label': a row matches when a word of
\* its label starts with the prefix
AutocompleteMatch(i, prefix) ==
    /\ i \in items_fts
    /\ \E w \in Tokens(items[i].label) : IsPrefix(Lower(prefix), w)

\* the first occurrence of every element, in order (SELECT DISTINCT)
RECURSIVE Distinct(_)
Distinct(s) ==
    IF s = <<>> THEN <<>>
    ELSE LET d == Distinct(SubSeq(s, 1, Len(s) - 1))
         IN IF s[Len(s)] \in Range(d) THEN d ELSE Append(d, s[Len(s)])

autocomplete_rows(prefix, limit) ==
    LET hit == {i \in ItemIds :
                  AutocompleteMatch(i, prefix) /\ items[i].is_active = 1}
        ord == OrderByKey(hit, [i \in hit |-> 0])
    IN Limit(Distinct([k \in 1..Len(ord) |-> items[ord[k]].label]), limit)

\* a prefix of letters only is a valid bareword prefix query
PrefixSyntaxOk(prefix) == \A k \in 1..Len(prefix) : prefix[k] \in Letters \cup {"_"}

\* (variant: only the empty prefix is turned away)
prefix_too_short_empty_only(prefix) == IsNone(prefix) \/ Len(Val(prefix)) < 1

\* if not prefix or len(prefix) < 2
prefix_too_short(prefix) == IsNone(prefix) \/ Len(Val(prefix)) < 2

search_autocomplete(prefix, limit, fault) ==
    LET c1 == <<"fts5.search_autocomplete", "db.connect">>
        c2 == Append(c1, "cursor.execute")
    IN  IF prefix_too_short(prefix)
        THEN Ok(<<>>, <<"fts5.search_autocomplete">>)
        ELSE IF FaultAt(fault, "autocomplete", "connect")
        THEN Raise(fault.exc, Append(c1, Raised(fault.exc)))
        ELSE IF FaultAt(fault, "autocomplete", "execute")
        THEN IF fault.exc = "OperationalError"
             THEN Ok(<<>>, Append(c2, Raised(fault.exc)))
             ELSE Raise(fault.exc, Append(c2, Raised(fault.exc)))
        ELSE IF ~PrefixSyntaxOk(Val(prefix))
        THEN Ok(<<>>, Append(c2, Raised("OperationalError")))
        ELSE Ok(autocomplete_rows(Val(prefix), limit), c2)

\* rebuild_index / optimize_index: two statements and a commit inside
\* try/except Exception; connect() precedes the try
fts5_maintenance(name, site, fault) ==
    LET c1 == <<name, "db.connect">>
        c2 == Append(c1, "cursor.execute items_fts")
        c3 == Append(c2, "cursor.execute categories_fts")
        c4 == Append(c3, "conn.commit")
    IN  IF FaultAt(fault, site, "connect")
        THEN Raise(fault.exc, Append(c1, Raised(fault.exc)))
        ELSE IF FaultAt(fault, site, "execute")
        THEN Ok(FALSE, Append(c2, Raised(fault.exc)))
        ELSE IF FaultAt(fault, site, "execute2")
        THEN Ok(FALSE, Append(c3, Raised(fault.exc)))
        ELSE IF FaultAt(fault, site, "commit")
        THEN Ok(FALSE, Append(c4, Raised(fault.exc)))
        ELSE Ok(TRUE, c4)

rebuild_index(fault) == fts5_maintenance("fts5.rebuild_index", "rebuild", fault)

\* INSERT INTO items_fts(items_fts) VALUES('rebuild'): the index is rebuilt
\* from the rows of the items table, once the first statement has run
rebuild_items_fts(fault) ==
    IF FaultAt(fault, "rebuild", "connect") \/ FaultAt(fault, "rebuild", "execute")
    THEN items_fts ELSE ItemIds

optimize_index(fault) == fts5_maintenance("fts5.optimize_index", "optimize", fault)

\* (variant: the counts are taken from the index instead of the tables)
get_index_stats_from_fts(fault) ==
    Ok([items_indexed |-> Cardinality(items_fts),
        categories_indexed |-> Cardinality(DOMAIN categories_tbl),
        index_size_kb |-> Cardinality(ItemIds) + Cardinality(items_fts)],
       <<"fts5.get_index_stats", "db.connect", "cursor.execute">>)

get_index_stats(fault) ==
    LET c1 == <<"fts5.get_index_stats", "db.connect">>
        c2 == Append(c1, "cursor.execute")
    IN  IF FaultAt(fault, "stats", "connect")
        THEN Raise(fault.exc, Append(c1, Raised(fault.exc)))
        ELSE IF FaultAt(fault, "stats", "execute")
        THEN Ok([items_indexed |-> 0, categories_indexed |-> 0,
                 index_size_kb |-> 0], Append(c2, Raised(fault.exc)))
        ELSE Ok([items_indexed |->
                    Cardinality({i \in ItemIds : items[i].is_active = 1}),
                 categories_indexed |->
                    Cardinality({c \in DOMAIN categories_tbl :
                                    categories_tbl[c].is_active = 1}),
                 index_size_kb |-> Cardinality(ItemIds) + Cardinality(items_fts)],
                <<"fts5.get_index_stats", "db.connect", "cursor.execute",
                  "cursor.execute", "cursor.execute", "cursor.execute">>)

----------------------------------------------------------------------------
(* IndexManager: the Index Maintenance Reporter *)

index_manager_call(name, result, fault) ==
    IF FaultAt(fault, "index_manager", "execute")
    THEN Raise(fault.exc, <<name, Raised(fault.exc)>>)
    ELSE Ok(result, <<name>>)

analyze_performance(fault) ==
    index_manager_call("index_manager.analyze_performance", None, fault)
rebuild_all_indexes(fault) ==
    index_manager_call("index_manager.rebuild_all_indexes", None, fault)
get_index_info(fault) ==
    index_manager_call("index_manager.get_index_info",
                       <<"idx_items_category", "idx_items_type">>, fault)

----------------------------------------------------------------------------
(* AdvancedSearchEngine *)

\* filters = {} : every filters.get(...) is None
NoFilters ==
    [item_types |-> None, categories |-> None, is_favorite |-> None,
     is_sensitive |-> None, min_use_count |-> None, date_range |-> None,
     date_from |-> None, date_to |-> None]

\* (variant: the legacy pair is read first, the date_range object otherwise)
_search_fts5_legacy_first(query, filters, limit, offset, fault, dt) ==
    LET dr == filters.date_range
        legacy == ~IsNone(filters.date_from) \/ ~IsNone(filters.date_to)
        date_from == IF legacy \/ IsNone(dr) THEN filters.date_from ELSE Val(dr).date_from
        date_to == IF legacy \/ IsNone(dr) THEN filters.date_to ELSE Val(dr).date_to
    IN search_with_filters(query, filters.item_types, filters.categories,
            filters.is_favorite, filters.is_sensitive, date_from, date_to,
            filters.min_use_count, limit, fault, dt)

_search_fts5(query, filters, limit, offset, fault, dt) ==
    LET dr == filters.date_range
        date_from == IF ~IsNone(dr) THEN Val(dr).date_from ELSE filters.date_from
        date_to == IF ~IsNone(dr) THEN Val(dr).date_to ELSE filters.date_to
    IN search_with_filters(query, filters.item_types, filters.categories,
            filters.is_favorite, filters.is_sensitive, date_from, date_to,
            filters.min_use_count, limit, fault, dt)

\* a date column of the items table, by name
DateColumn(i, field) ==
    IF field = "created_at" THEN Some(items[i].created_at) ELSE items[i].last_used

\* (variant: each bound may be met by a different field)
exact_date_clause_any_field_per_bound(i, date_range) ==
    LET date_from == date_range.date_from
        date_to == date_range.date_to
        fields == IF IsNone(date_range.fields) THEN <<"created_at">>
                  ELSE Val(date_range.fields)
    IN  (fields # <<>> /\ (~IsNone(date_from) \/ ~IsNone(date_to))) =>
            /\ ~IsNone(date_from) =>
                    \E k \in 1..Len(fields) :
                        DateGe(DateColumn(i, fields[k]), Val(date_from))
            /\ ~IsNone(date_to) =>
                    \E k \in 1..Len(fields) :
                        DateLe(DateColumn(i, fields[k]), Val(date_to))

\* the date_range clause: OR over the fields of (>= date_from AND <= date_to)
exact_date_clause(i, date_range) ==
    LET date_from == date_range.date_from
        date_to == date_range.date_to
        fields == IF IsNone(date_range.fields) THEN <<"created_at">>
                  ELSE Val(date_range.fields)
    IN  (fields # <<>> /\ (~IsNone(date_from) \/ ~IsNone(date_to))) =>
            \E k \in 1..Len(fields) :
                /\ ~IsNone(date_from) =>
                        DateGe(DateColumn(i, fields[k]), Val(date_from))
                /\ ~IsNone(date_to) =>
                        DateLe(DateColumn(i, fields[k]), Val(date_to))

\* the text clause: LOWER(col) LIKE LOWER('%query%') on label, content, or
\* the name of a tag joined to the item
exact_text_clause(i, query) ==
    LET search_pattern == Lower(<<"%">> \o query \o <<"%">>)
    IN  \/ Like(Lower(items[i].label), search_pattern)
        \/ Like(Lower(items[i].content), search_pattern)
        \/ \E k \in 1..Len(item_tags[i]) :
                Like(Lower(item_tags[i][k]), search_pattern)

\* (variant: the i.is_active = 1 clause is left out)
exact_where_any_row(i, query, filters) ==
    /\ exact_text_clause(i, query)
    /\ Truthy(filters.item_types) =>
            items[i].type \in Range(Val(filters.item_types))
    /\ Truthy(filters.categories) =>
            InList(items[i].category_id, Val(filters.categories))
    /\ ~IsNone(filters.is_favorite) =>
            items[i].is_favorite = (IF Val(filters.is_favorite) THEN 1 ELSE 0)
    /\ ~IsNone(filters.is_sensitive) =>
            items[i].is_sensitive = (IF Val(filters.is_sensitive) THEN 1 ELSE 0)
    /\ ~IsNone(filters.date_range) =>
            exact_date_clause(i, Val(filters.date_range))
    /\ ~IsNone(filters.min_use_count) =>
            items[i].use_count >= Val(filters.min_use_count)

\* the WHERE clause _search_exact builds
exact_where(i, query, filters) ==
    /\ items[i].is_active = 1
    /\ exact_text_clause(i, query)
    /\ Truthy(filters.item_types) =>
            items[i].type \in Range(Val(filters.item_types))
    /\ Truthy(filters.categories) =>
            InList(items[i].category_id, Val(filters.categories))
    /\ ~IsNone(filters.is_favorite) =>
            items[i].is_favorite = (IF Val(filters.is_favorite) THEN 1 ELSE 0)
    /\ ~IsNone(filters.is_sensitive) =>
            items[i].is_sensitive = (IF Val(filters.is_sensitive) THEN 1 ELSE 0)
    /\ ~IsNone(filters.date_range) =>
            exact_date_clause(i, Val(filters.date_range))
    /\ ~IsNone(filters.min_use_count) =>
            items[i].use_count >= Val(filters.min_use_count)

\* (variant: ORDER BY i.use_count DESC alone)
ExactBefore_use_count_only(x, y) ==
    \/ items[x].use_count > items[y].use_count
    \/ items[x].use_count = items[y].use_count /\ x <= y

\* ORDER BY i.use_count DESC, i.last_used DESC (NULL sorts last; ties by row id)
ExactBefore(x, y) ==
    LET lx == IF IsNone(items[x].last_used) THEN 0 - 1 ELSE Val(items[x].last_used)
        ly == IF IsNone(items[y].last_used) THEN 0 - 1 ELSE Val(items[y].last_used)
    IN  \/ items[x].use_count > items[y].use_count
        \/ /\ items[x].use_count = items[y].use_count
           /\ (lx > ly \/ (lx = ly /\ x <= y))

RECURSIVE exact_order(_)
exact_order(ids) ==
    IF ids = {} THEN <<>>
    ELSE LET m == CHOOSE x \in ids : \A y \in ids : ExactBefore(x, y)
         IN <<m>> \o exact_order(ids \ {m})

\* the tags of an item whose name matches the pattern of the query
MatchingTags(i, query) ==
    {k \in 1..Len(item_tags[i]) :
        Like(Lower(item_tags[i][k]), Lower(<<"%">> \o query \o <<"%">>))}

\* one row per matching tag of each item (a row matched by text alone once)
RECURSIVE JoinedRows(_, _)
JoinedRows(ord, query) ==
    IF ord = <<>> THEN <<>>
    ELSE LET n == Cardinality(MatchingTags(Head(ord), query))
         IN [k \in 1..(IF n = 0 THEN 1 ELSE n) |-> Head(ord)]
                \o JoinedRows(Tail(ord), query)

\* (variant: the tags are joined to the items instead of tested by EXISTS)
exact_rows_joined(query, filters, limit, offset) ==
    LimitOffset(JoinedRows(exact_order({i \in ItemIds : exact_where(i, query, filters)}),
                           query),
                limit, offset)

exact_rows(query, filters, limit, offset) ==
    LimitOffset(exact_order({i \in ItemIds : exact_where(i, query, filters)}),
                limit, offset)

\* (variant: the rank is a relevance score, as on the full-text path)
exact_result_dict_ranked(i) == ResultDict(i, 0 - 1)

\* (variant: tags read from the column the statement no longer selects)
exact_result_dict_tags_column(i) == [ResultDict(i, 0) EXCEPT !.tags = <<>>]

\* the loop over the rows: dict(zip(columns, row)) with rank_score 0.0 and
\* result_dict['tags'] = self.db.get_tags_by_item(result_dict['id'])
exact_result_dict(i) == ResultDict(i, 0)

\* except Exception: return [], 0.0
exact_except(calls) == Ok(<<<<>>, 0>>, Append(calls, ExactReturned(<<>>)))

_search_exact(query, filters, limit, offset, fault, dt) ==
    LET c1 == <<"_search_exact", "db.connect">>
        c2 == Append(c1, "cursor.execute")
        rows == exact_rows(query, filters, limit, offset)
        c3 == Append(c2, "db.get_tags_by_item")
    IN  IF FaultAt(fault, "exact", "connect")
        THEN Raise(fault.exc, Append(c1, Raised(fault.exc)))
        ELSE IF FaultAt(fault, "exact", "execute")
        THEN exact_except(Append(c2, Raised(fault.exc)))
        ELSE IF rows # <<>> /\ FaultAt(fault, "exact", "tags")
        THEN exact_except(Append(c3, Raised(fault.exc)))
        ELSE Ok(<<[k \in 1..Len(rows) |-> exact_result_dict(rows[k])], dt>>,
                Append(c2 \o [k \in 1..Len(rows) |-> "db.get_tags_by_item"],
                       ExactReturned(rows)))

\* (variant: both strategies always run and their results are merged)
_search_smart_merge(query, filters, limit, offset, fault, dt) ==
    LET r1 == _search_fts5(query, filters, limit, offset, fault, dt)
        r2 == _search_exact(query, filters, limit, offset, fault, dt)
    IN  IF ~IsNone(r1.exc) THEN r1
        ELSE IF ~IsNone(r2.exc) THEN [r2 EXCEPT !.calls = r1.calls \o r2.calls]
        ELSE Ok(<<r1.val[1] \o r2.val[1], r2.val[2]>>, r1.calls \o r2.calls)

_search_smart(query, filters, limit, offset, fault, dt) ==
    LET r1 == _search_fts5(query, filters, limit, offset, fault, dt)
        r2 == _search_exact(query, filters, limit, offset, fault, dt)
    IN  IF ~IsNone(r1.exc) THEN r1
        ELSE IF r1.val[1] = <<>>
             THEN [r2 EXCEPT !.calls = r1.calls \o r2.calls]
             ELSE r1

SearchModes == {"smart", "fts5", "exact"}

\* (variant: the test `if not query` alone)
is_empty_query_unstripped(query) == IsNone(query) \/ Val(query) = <<>>

\* if not query or not query.strip()
is_empty_query(query) ==
    IsNone(query) \/ Val(query) = <<>> \/ Strip(Val(query)) = <<>>

empty_query_envelope(query, mode) ==
    [results |-> <<>>, count |-> 0, execution_time_ms |-> 0,
     mode_used |-> mode, query |-> query, error |-> <<"Empty query">>]

\* (variant: an unknown mode falls through to the smart strategy)
dispatch_default_smart(query, mode, filters, limit, offset, fault, dt) ==
    IF mode = "fts5" THEN _search_fts5(query, filters, limit, offset, fault, dt)
    ELSE IF mode = "exact" THEN _search_exact(query, filters, limit, offset, fault, dt)
    ELSE _search_smart(query, filters, limit, offset, fault, dt)

\* (variant: the fts5 branch runs the smart strategy)
dispatch_fts5_falls_back(query, mode, filters, limit, offset, fault, dt) ==
    IF mode \in {"smart", "fts5"}
    THEN _search_smart(query, filters, limit, offset, fault, dt)
    ELSE IF mode = "exact" THEN _search_exact(query, filters, limit, offset, fault, dt)
    ELSE Raise("ValueError", <<>>)

\* the if / elif chain on mode; its else raises ValueError
dispatch(query, mode, filters, limit, offset, fault, dt) ==
    IF mode = "smart" THEN _search_smart(query, filters, limit, offset, fault, dt)
    ELSE IF mode = "fts5" THEN _search_fts5(query, filters, limit, offset, fault, dt)
    ELSE IF mode = "exact" THEN _search_exact(query, filters, limit, offset, fault, dt)
    ELSE Raise("ValueError", <<>>)

\* mode_used is the literal of the branch taken, which is the mode asked for
success_envelope(results, mode, query, dt) ==
    [results |-> results, count |-> Len(results), execution_time_ms |-> dt,
     mode_used |-> mode, query |-> Some(query)]

\* str(e)
Message(e, mode) ==
    IF e = "ValueError" THEN <<"Unknown search mode: ", mode>> ELSE <<e>>

\* (variant: except ValueError -- a storage exception propagates)
search_except_value_error_only(r, mode, query) ==
    IF Val(r.exc) = "ValueError"
    THEN Ok([results |-> <<>>, count |-> 0, execution_time_ms |-> 0,
             mode_used |-> mode, query |-> Some(query),
             error |-> Message(Val(r.exc), mode)], r.calls)
    ELSE r

\* except Exception as e: the error envelope
search_except(r, mode, query) ==
    Ok([results |-> <<>>, count |-> 0, execution_time_ms |-> 0,
        mode_used |-> mode, query |-> Some(query),
        error |-> Message(Val(r.exc), mode)], r.calls)

search(query, mode, filters, limit, offset, fault, dt) ==
    IF is_empty_query(query)
    THEN Ok(empty_query_envelope(query, mode), <<>>)
    ELSE
    LET q == Strip(Val(query))
        f == IF IsNone(filters) THEN NoFilters ELSE Val(filters)
        r == dispatch(q, mode, f, limit, offset, fault, dt)
    IN  IF IsNone(r.exc)
        THEN Ok(success_envelope(r.val[1], mode, q, dt), r.calls)
        ELSE search_except(r, mode, q)

\* (variant: the suggestion lookup is recorded and committed)
autocomplete_commits(prefix, limit, fault) ==
    LET r == search_autocomplete(prefix, limit, fault)
    IN [r EXCEPT !.calls = Append(@, "conn.commit")]

autocomplete(prefix, limit, fault) == search_autocomplete(prefix, limit, fault)

\* (variant: the is_favorite filter is applied to the highlighted rows)
search_with_highlighting_filtered(query, filters, limit, fault, dt) ==
    LET r == fts5_search_with_highlighting(query, 100, limit, fault, dt)
        f == IF IsNone(filters) THEN NoFilters ELSE Val(filters)
        keep(row) == ~IsNone(f.is_favorite) =>
                        row.is_favorite = (IF Val(f.is_favorite) THEN 1 ELSE 0)
        results == SelectSeq(r.val[1], keep)
    IN  IF ~IsNone(r.exc) THEN r
        ELSE Ok([results |-> results, count |-> Len(results),
                 execution_time_ms |-> dt, mode_used |-> "fts5_highlighting",
                 query |-> query], r.calls)

search_with_highlighting(query, filters, limit, fault, dt) ==
    LET r == fts5_search_with_highlighting(query, 100, limit, fault, dt)
    IN  IF ~IsNone(r.exc) THEN r
        ELSE Ok([results |-> r.val[1], count |-> Len(r.val[1]),
                 execution_time_ms |-> dt, mode_used |-> "fts5_highlighting",
                 query |-> query], r.calls)

\* two collaborator calls in sequence; an exception of the first ends the method
InSequence(r1, r2, result) ==
    IF ~IsNone(r1.exc) THEN r1
    ELSE IF ~IsNone(r2.exc) THEN Raise(Val(r2.exc), r1.calls \o r2.calls)
    ELSE Ok(result, r1.calls \o r2.calls)

optimize_indexes(fault) ==
    InSequence(optimize_index(fault), analyze_performance(fault), None)

rebuild_indexes(fault) ==
    InSequence(rebuild_index(fault), rebuild_all_indexes(fault), None)

get_stats(fault) ==
    LET r1 == get_index_stats(fault)
        r2 == get_index_info(fault)
    IN InSequence(r1, r2,
            [items_indexed |-> r1.val.items_indexed,
             categories_indexed |-> r1.val.categories_indexed,
             index_size_kb |-> r1.val.index_size_kb,
             indexes_count |-> Len(r2.val), indexes |-> r2.val])

----------------------------------------------------------------------------
(* The inputs the callers draw from *)

Queries ==
    {None, Some(<<>>), Some(<<" ">>), Some(S_a), Some(<<" ", "a", "B", " ">>),
     Some(<<"%">>)}

Modes == SearchModes \cup {"fts", "bogus"}

FilterSets ==
    {None,
     Some([NoFilters EXCEPT !.is_favorite = Some(TRUE), !.min_use_count = Some(5)]),
     Some([NoFilters EXCEPT !.is_favorite = Some(FALSE), !.min_use_count = Some(0),
                            !.categories = Some(<<2>>)]),
     Some([NoFilters EXCEPT !.item_types = Some(<<"CODE", "TEXT">>),
                            !.is_sensitive = Some(FALSE)]),
     Some([NoFilters EXCEPT !.item_types = Some(<<>>), !.categories = Some(<<>>),
                            !.is_sensitive = Some(TRUE)])}

\* a date_range object of the filters
DateRange(date_from, date_to, fields) ==
    [date_from |-> date_from, date_to |-> date_to, fields |-> fields]

\* filters that hold dates: the date_range object (fields left out, one field,
\* both fields, no field, one bound only), the legacy pair, and both shapes
DateFilterSets ==
    {Some([NoFilters EXCEPT !.date_range = Some(DateRange(Some(2), Some(6), None))]),
     Some([NoFilters EXCEPT !.date_range =
            Some(DateRange(Some(3), Some(4), Some(<<"created_at", "last_used">>)))]),
     Some([NoFilters EXCEPT !.date_range =
            Some(DateRange(Some(4), Some(4), Some(<<"last_used", "created_at">>)))]),
     Some([NoFilters EXCEPT !.date_range =
            Some(DateRange(None, Some(4), Some(<<"created_at">>)))]),
     Some([NoFilters EXCEPT !.date_range = Some(DateRange(Some(2), Some(6), Some(<<>>)))]),
     Some([NoFilters EXCEPT !.date_from = Some(2), !.date_to = Some(6)]),
     Some([NoFilters EXCEPT !.date_range =
                                Some(DateRange(Some(2), Some(6), Some(<<"created_at">>))),
                            !.date_from = Some(6), !.date_to = Some(9)])}

DateQueries == {Some(S_a), Some(<<" ", "a", "B", " ">>)}

Limits == 0..MaxLimit
Offsets == 0..MaxOffset
\* a wall-clock difference: below the clock's resolution, or positive
Elapsed == {0, 1}

Faults(siteSets, steps) ==
    {NoFault} \cup
    {[sites |-> s, step |-> st, exc |-> e] :
        s \in siteSets, st \in steps, e \in ExcTypes}

\* the failures a search call meets: any step of the full-text strategy with
\* either exception type (its handler tells them apart), any step of the
\* exact strategy, and the statement failing in both strategies
SearchFaults ==
    Faults({{"fts"}}, {"connect", "execute", "tags"})
        \cup {[sites |-> {"exact"}, step |-> st, exc |-> "DatabaseError"] :
                st \in {"connect", "execute", "tags"}}
        \cup {[sites |-> {"exact"}, step |-> "execute", exc |-> "OperationalError"],
              [sites |-> {"fts", "exact"}, step |-> "execute",
               exc |-> "OperationalError"]}

\* what the environment does during one call: it fails somewhere or not, and
\* the clock advances; a call that meets a failure is observed with one
\* positive elapsed time
Environments(faults) ==
    {<<NoFault, dt>> : dt \in Elapsed}
        \cup {<<fault, 1>> : fault \in faults \ {NoFault}}

Prefixes == {None, Some(<<>>), Some(S_a), Some(S_ab), Some(<<"A", "B">>), Some(<<"a", "%">>)}

----------------------------------------------------------------------------
(* AlertService: the background check of pending alerts *)

AlertIds == 1..NumAlerts

\* the state after AlertService.__init__, with nothing emitted yet
AlertServiceInit ==
    /\ alert_history = <<>>
    /\ emitted = [a \in AlertIds |-> 0]
    /\ is_running = FALSE
    /\ alerts_checked = 0
    /\ alerts_triggered = 0
    /\ alert_log = <<>>

\* the elements of a set of ids as a list, in ascending order
RECURSIVE Ascending(_)
Ascending(ids) ==
    IF ids = {} THEN <<>>
    ELSE LET m == CHOOSE x \in ids : \A y \in ids : x <= y
         IN <<m>> \o Ascending(ids \ {m})

\* db.get_pending_alerts(minutes_ahead=5): the alerts whose status is pending
get_pending_alerts(tbl) == Ascending({a \in AlertIds : tbl[a].status = "pending"})

\* db.get_item(item_id): the row, or None when there is no such item
get_item(item_id) == IF item_id \in ItemIds THEN Some(items[item_id]) ELSE None

\* the calls of db that can raise while one alert is processed
AlertFaultSteps == {"none", "get_item", "update_item_alert", "add_alert_history"}

\* the body of the loop of check_alerts for one alert: get_item, emit,
\* update_item_alert, add_alert_history, the counter; an exception ends it
process_alert(a, f, st) ==
    LET log1 == Append(st.alert_log, <<"get_item", a>>)
        failed(s) == [s EXCEPT !.alert_log = Append(@, <<"raised", a>>)]
    IN  IF f = "get_item" THEN failed([st EXCEPT !.alert_log = log1])
        ELSE IF IsNone(get_item(st.alerts[a].item_id))
        THEN [st EXCEPT !.alert_log = log1]
        ELSE LET e == [st EXCEPT !.emitted[a] = @ + 1,
                                 !.alert_log = Append(log1, <<"emit", a>>)]
             IN  IF f = "update_item_alert" THEN failed(e)
                 ELSE LET u == [e EXCEPT !.alerts[a].status = "triggered"]
                      IN  IF f = "add_alert_history" THEN failed(u)
                          ELSE [u EXCEPT !.alert_history = Append(@, a),
                                         !.alerts_triggered = @ + 1]

\* for alert in pending_alerts
RECURSIVE process_alerts(_, _, _)
process_alerts(pending, faults, st) ==
    IF pending = <<>> THEN st
    ELSE process_alerts(Tail(pending), faults,
                        process_alert(Head(pending), faults[Head(pending)], st))

\* check_alerts: the counter, get_pending_alerts, the loop; `pending_fails`
\* is get_pending_alerts raising, `faults` the failing call of each alert
check_alerts(pending_fails, faults) ==
    LET pending == get_pending_alerts(alerts)
        st0 == [alerts |-> alerts, alert_history |-> alert_history,
                emitted |-> emitted, alerts_triggered |-> alerts_triggered,
                alert_log |-> [k \in 1..Len(pending) |-> <<"pending", pending[k]>>]]
        st == IF pending_fails THEN [st0 EXCEPT !.alert_log = <<<<"raised", 0>>>>]
              ELSE process_alerts(pending, faults, st0)
    IN  /\ alerts_checked' = alerts_checked + 1
        /\ alerts' = st.alerts
        /\ alert_history' = st.alert_history
        /\ emitted' = st.emitted
        /\ alerts_triggered' = st.alerts_triggered
        /\ alert_log' = st.alert_log

SearchState == <<items, categories_tbl, item_tags, items_fts, pc, request, response>>

\* start(): starts the timer and checks at once (a second start only warns)
Start ==
    /\ ~is_running
    /\ alerts_checked < MaxChecks
    /\ is_running' = TRUE
    /\ \E pending_fails \in BOOLEAN, faults \in [AlertIds -> AlertFaultSteps] :
            check_alerts(pending_fails, faults)
    /\ UNCHANGED SearchState

\* stop()
Stop ==
    /\ is_running
    /\ is_running' = FALSE
    /\ UNCHANGED <<SearchState, alerts, alert_history, emitted, alerts_checked,
                   alerts_triggered, alert_log>>

\* the timer expires: timer.timeout is connected to check_alerts
Timeout ==
    /\ is_running
    /\ alerts_checked < MaxChecks
    /\ \E pending_fails \in BOOLEAN, faults \in [AlertIds -> AlertFaultSteps] :
            check_alerts(pending_fails, faults)
    /\ UNCHANGED <<SearchState, is_running>>

\* force_check()
ForceCheck ==
    /\ alerts_checked < MaxChecks
    /\ \E pending_fails \in BOOLEAN, faults \in [AlertIds -> AlertFaultSteps] :
            check_alerts(pending_fails, faults)
    /\ UNCHANGED <<SearchState, is_running>>

\* a store of items, and alerts on these items or on an item that is gone
AlertInit ==
    /\ items = [i \in ItemIds |-> Row(CHOOSE r \in TiePool : r.last_used = Some(1))]
    /\ item_tags = [i \in ItemIds |-> <<>>]
    /\ categories_tbl = (1 :> [name |-> "dev", is_active |-> 1])
    /\ items_fts = ItemIds
    /\ pc = "idle"
    /\ request = [op |-> "none"]
    /\ response = Ok(None, <<>>)
    /\ \E item_of \in [AlertIds -> {0, 1}] :
            alerts = [a \in AlertIds |-> [item_id |-> item_of[a], status |-> "pending"]]
    /\ AlertServiceInit

AlertNext ==
    \/ Start
    \/ Stop
    \/ Timeout
    \/ ForceCheck

AlertSpec == AlertInit /\ [][AlertNext]_vars

----------------------------------------------------------------------------
(* The state machine: a caller makes one public call at a time *)

NoCall == [op |-> "none"]
NoResponse == Ok(None, <<>>)

Init ==
    /\ \E rows \in [ItemIds -> ItemPool] \cup [ItemIds -> TiePool] :
            /\ items = [i \in ItemIds |-> Row(rows[i])]
            /\ item_tags = [i \in ItemIds |-> rows[i].tags]
    /\ categories_tbl = (1 :> [name |-> "dev", is_active |-> 1]
                         @@ 2 :> [name |-> "old", is_active |-> 0])
    \* the index holds the rows up to some row id: later rows are not indexed yet
    /\ items_fts \in {1..n : n \in 0..NumItems}
    /\ pc = "idle"
    /\ request = NoCall
    /\ response = NoResponse
    /\ alerts = [a \in AlertIds |-> [item_id |-> 1, status |-> "pending"]]
    /\ AlertServiceInit

Store == <<items, categories_tbl, item_tags>>

AlertState ==
    <<alerts, alert_history, emitted, is_running, alerts_checked, alerts_triggered,
      alert_log>>

\* one call of search and what it returns
SearchCall(query, mode, filters, limit, offset, fault, dt) ==
    /\ request' = [op |-> "search", query |-> query, mode |-> mode,
                   filters |-> filters, limit |-> limit, offset |-> offset]
    /\ response' = search(query, mode, filters, limit, offset, fault, dt)

\* a call that meets no failure is made with every page; a call that meets a
\* failure is made for the first page of the largest size (the page is empty
\* when the store holds no matching row)
Search ==
    /\ pc = "idle"
    /\ \E query \in Queries, mode \in Modes, filters \in FilterSets :
            \/ \E limit \in Limits, offset \in Offsets, dt \in Elapsed :
                    SearchCall(query, mode, filters, limit, offset, NoFault, dt)
            \/ \E fault \in SearchFaults \ {NoFault} :
                    SearchCall(query, mode, filters, MaxLimit, 0, fault, 1)
    /\ pc' = "returned"
    /\ UNCHANGED <<Store, items_fts, AlertState>>

\* a search whose filters hold dates
SearchByDate ==
    /\ pc = "idle"
    /\ \E query \in DateQueries, mode \in SearchModes, filters \in DateFilterSets :
            /\ request' = [op |-> "search", query |-> query, mode |-> mode,
                           filters |-> filters, limit |-> MaxLimit, offset |-> 0]
            /\ response' = search(query, mode, filters, MaxLimit, 0, NoFault, 1)
    /\ pc' = "returned"
    /\ UNCHANGED <<Store, items_fts, AlertState>>

Autocomplete ==
    /\ pc = "idle"
    /\ \E prefix \in Prefixes, limit \in Limits,
          fault \in Faults({{"autocomplete"}}, {"connect", "execute"}) :
            /\ request' = [op |-> "autocomplete", prefix |-> prefix, limit |-> limit]
            /\ response' = autocomplete(prefix, limit, fault)
    /\ pc' = "returned"
    /\ UNCHANGED <<Store, items_fts, AlertState>>

SearchWithHighlighting ==
    /\ pc = "idle"
    /\ \E query \in Queries, filters \in FilterSets, limit \in Limits,
          env \in Environments(Faults({{"highlight"}},
                                      {"connect", "execute", "tags"})) :
            /\ request' = [op |-> "search_with_highlighting", query |-> query,
                           filters |-> filters, limit |-> limit]
            /\ response' = search_with_highlighting(query, filters, limit,
                                                    env[1], env[2])
    /\ pc' = "returned"
    /\ UNCHANGED <<Store, items_fts, AlertState>>

MaintenanceFaults(site) ==
    Faults({{site}, {"index_manager"}},
           {"connect", "execute", "execute2", "commit"})

OptimizeIndexes ==
    /\ pc = "idle"
    /\ \E fault \in MaintenanceFaults("optimize") :
            /\ request' = [op |-> "optimize_indexes"]
            /\ response' = optimize_indexes(fault)
    /\ pc' = "returned"
    /\ UNCHANGED <<Store, items_fts, AlertState>>

RebuildIndexes ==
    /\ pc = "idle"
    /\ \E fault \in MaintenanceFaults("rebuild") :
            /\ request' = [op |-> "rebuild_indexes"]
            /\ response' = rebuild_indexes(fault)
            /\ items_fts' = rebuild_items_fts(fault)
    /\ pc' = "returned"
    /\ UNCHANGED <<Store, AlertState>>

\* the queries a caller of the manager makes: a word and a syntax error
ManagerQueries == {S_a, <<"%">>}

ManagerFaults(site) == Faults({{site}}, {"connect", "execute", "tags"})

\* the three search methods of the full-text manager, called on the manager
SearchBasic ==
    /\ pc = "idle"
    /\ \E query \in ManagerQueries, offset \in Offsets, fault \in ManagerFaults("basic") :
            /\ request' = [op |-> "fts5.search_basic", query |-> query,
                           limit |-> MaxLimit, offset |-> offset]
            /\ response' = search_basic(query, MaxLimit, offset, fault, 1)
    /\ pc' = "returned"
    /\ UNCHANGED <<Store, items_fts, AlertState>>

SearchWithFilters ==
    /\ pc = "idle"
    /\ \E query \in ManagerQueries, fault \in ManagerFaults("fts") :
            /\ request' = [op |-> "fts5.search_with_filters", query |-> query,
                           limit |-> MaxLimit]
            /\ response' = search_with_filters(query, None, None, None, None, None,
                                               None, None, MaxLimit, fault, 1)
    /\ pc' = "returned"
    /\ UNCHANGED <<Store, items_fts, AlertState>>

ManagerSearchWithHighlighting ==
    /\ pc = "idle"
    /\ \E query \in ManagerQueries, fault \in ManagerFaults("highlight") :
            /\ request' = [op |-> "fts5.search_with_highlighting", query |-> query,
                           limit |-> MaxLimit]
            /\ response' = fts5_search_with_highlighting(Some(query), 100, MaxLimit,
                                                         fault, 1)
    /\ pc' = "returned"
    /\ UNCHANGED <<Store, items_fts, AlertState>>

\* the full-text index's own rebuild, called on the manager
RebuildIndex ==
    /\ pc = "idle"
    /\ \E fault \in Faults({{"rebuild"}}, {"connect", "execute", "execute2", "commit"}) :
            /\ request' = [op |-> "rebuild_index"]
            /\ response' = rebuild_index(fault)
            /\ items_fts' = rebuild_items_fts(fault)
    /\ pc' = "returned"
    /\ UNCHANGED <<Store, AlertState>>

GetStats ==
    /\ pc = "idle"
    /\ \E fault \in Faults({{"stats"}, {"index_manager"}}, {"connect", "execute"}) :
            /\ request' = [op |-> "get_stats"]
            /\ response' = get_stats(fault)
    /\ pc' = "returned"
    /\ UNCHANGED <<Store, items_fts, AlertState>>

\* the caller takes the result and is ready for its next call
Return ==
    /\ pc = "returned"
    /\ pc' = "idle"
    /\ request' = NoCall
    /\ response' = NoResponse
    /\ UNCHANGED <<Store, items_fts, AlertState>>

Next ==
    \/ Search
    \/ SearchByDate
    \/ Autocomplete
    \/ SearchWithHighlighting
    \/ OptimizeIndexes
    \/ RebuildIndexes
    \/ RebuildIndex
    \/ SearchBasic
    \/ SearchWithFilters
    \/ ManagerSearchWithHighlighting
    \/ GetStats
    \/ Return

Spec == Init /\ [][Next]_vars

----------------------------------------------------------------------------
(* Properties *)

Returned(op) == pc = "returned" /\ request.op = op
Envelope == response.val
HasError(e) == "error" \in DOMAIN e
Called(name) == name \in Range(response.calls)
CountOf(name) == Cardinality({k \in 1..Len(response.calls) : response.calls[k] = name})
StorageFailed == Range(response.calls) \cap StorageFailures # {}

\* the query is empty, None or whitespace only
BlankQuery(query) ==
    IsNone(query) \/ \A k \in 1..Len(Val(query)) : Val(query)[k] = " "

RequestFilters == IF IsNone(request.filters) THEN NoFilters ELSE Val(request.filters)

\* C1: for an empty, None or whitespace-only query, whatever the mode, the
\* filters, the limit and the offset, search returns the envelope with
\* results == [], count == 0, execution_time_ms == 0.0 and error == "Empty
\* query", and calls neither the storage collaborator nor a strategy.
C1_EmptyQuery ==
    (Returned("search") /\ BlankQuery(request.query)) =>
        /\ IsNone(response.exc)
        /\ Envelope.results = <<>>
        /\ Envelope.count = 0
        /\ Envelope.execution_time_ms = 0
        /\ HasError(Envelope) /\ Envelope.error = <<"Empty query">>
        /\ response.calls = <<>>

C1_Witness ==
    /\ Returned("search")
    /\ request.query = Some(<<" ">>)
    /\ request.mode = "bogus"
    /\ request.limit = 0
    /\ Envelope.error = <<"Empty query">>

\* C2: for a non-empty query and a mode outside the accepted set, search
\* returns an envelope with results == [], count == 0 and a non-empty error
\* string, raises nothing, and invokes neither strategy.
C2_UnknownMode ==
    (Returned("search") /\ ~BlankQuery(request.query)
        /\ request.mode \notin SearchModes) =>
        /\ IsNone(response.exc)
        /\ Envelope.results = <<>>
        /\ Envelope.count = 0
        /\ HasError(Envelope) /\ Envelope.error # <<>>
        /\ ~Called("fts5.search_with_filters")
        /\ ~Called("_search_exact")

C2_Witness ==
    /\ Returned("search")
    /\ request.query = Some(S_a)
    /\ request.mode = "bogus"
    /\ Envelope.error = <<"Unknown search mode: ", "bogus">>

EnvelopeKeys == {"results", "count", "execution_time_ms", "mode_used", "query"}

\* C3: search never raises: whatever the arguments and whatever call on the
\* storage collaborator fails (connect, the statement, get_tags_by_item; an
\* OperationalError or another exception), search returns an envelope.
C3_SearchNeverRaises ==
    Returned("search") =>
        /\ IsNone(response.exc)
        /\ EnvelopeKeys \subseteq DOMAIN Envelope

C3_Witness ==
    /\ Returned("search")
    /\ Called("raised DatabaseError")
    /\ HasError(Envelope)
    /\ Envelope.error = <<"DatabaseError">>

\* C4 (as claimed): whenever a storage or index failure occurs during search,
\* the returned envelope contains an error field.
C4_FailureHasErrorField ==
    (Returned("search") /\ StorageFailed) => HasError(Envelope)

OtherPublicMethods ==
    {"autocomplete", "search_with_highlighting", "optimize_indexes",
     "rebuild_indexes", "get_stats"}

\* C5 (as claimed): autocomplete, search_with_highlighting, optimize_indexes,
\* rebuild_indexes and get_stats let no exception escape.
C5_NothingEscapes ==
    (pc = "returned" /\ request.op \in OtherPublicMethods) => IsNone(response.exc)

\* the rows each strategy yields for the request when nothing fails
FtsResults ==
    _search_fts5(Strip(Val(request.query)), RequestFilters, request.limit,
                 request.offset, NoFault, 0).val[1]
ExactResults ==
    _search_exact(Strip(Val(request.query)), RequestFilters, request.limit,
                  request.offset, NoFault, 0).val[1]

\* C6: in smart mode the full-text strategy runs first, the exact strategy
\* runs if and only if the full-text strategy returned zero rows (a swallowed
\* index error included), and the results are the list of one strategy alone.
C6_SmartFallback ==
    (Returned("search") /\ ~BlankQuery(request.query) /\ request.mode = "smart") =>
        /\ response.calls # <<>>
        /\ response.calls[1] = "fts5.search_with_filters"
        /\ \A k \in 1..Len(response.calls) :
                response.calls[k] = "_search_exact" =>
                    /\ k > 1
                    /\ response.calls[k - 1] = "fts5 returned no rows"
        /\ Called("_search_exact") <=> Called("fts5 returned no rows")
        /\ CountOf("fts5.search_with_filters") = 1
        /\ CountOf("_search_exact") <= 1
        /\ Envelope.results \in {<<>>, FtsResults, ExactResults}
        /\ Called("fts5 returned rows") => Envelope.results = FtsResults

C6_Witness ==
    /\ Returned("search")
    /\ request.mode = "smart"
    /\ Called("raised OperationalError")
    /\ Called("_search_exact")
    /\ Envelope.results # <<>>
    /\ \E i \in ItemIds : Fts5Match(i, Strip(Val(request.query)))

\* C7 (as claimed): for a query that matches no row of the full-text index
\* and at least one active row by substring scan, search(q, mode='smart')
\* returns mode_used == 'exact' and count >= 1.  Stated for the call that
\* cannot fail for another reason: no filters, limit >= 1, offset 0, no
\* failure of the storage collaborator.
C7_SmartReportsExact ==
    (/\ Returned("search") /\ ~BlankQuery(request.query)
     /\ request.mode = "smart"
     /\ IsNone(request.filters) /\ request.limit >= 1 /\ request.offset = 0
     /\ ~StorageFailed
     /\ \A i \in ItemIds : ~Fts5Match(i, Strip(Val(request.query)))
     /\ \E i \in ItemIds :
            items[i].is_active = 1 /\ exact_text_clause(i, Strip(Val(request.query))))
    => (Envelope.mode_used = "exact" /\ Envelope.count >= 1)

C9_FilterConjunction ==
    (Returned("search") /\ ~BlankQuery(request.query) /\ request.mode = "fts5") =>
        \A k \in 1..Len(Envelope.results) :
            LET r == Envelope.results[k]
                f == RequestFilters
            IN  /\ Truthy(f.item_types) =>
                        \E j \in 1..Len(Val(f.item_types)) : Val(f.item_types)[j] = r.type
                /\ Truthy(f.categories) =>
                        \E j \in 1..Len(Val(f.categories)) :
                            r.category_id = Some(Val(f.categories)[j])
                /\ ~IsNone(f.is_favorite) =>
                        (r.is_favorite = 1 <=> Val(f.is_favorite))
                /\ ~IsNone(f.is_sensitive) =>
                        (r.is_sensitive = 1 <=> Val(f.is_sensitive))
                /\ ~IsNone(f.min_use_count) => r.use_count >= Val(f.min_use_count)

C9_Witness ==
    /\ Returned("search")
    /\ request.mode = "fts5"
    /\ ~IsNone(request.filters)
    /\ Val(request.filters).is_favorite = Some(TRUE)
    /\ Val(request.filters).min_use_count = Some(5)
    /\ Envelope.results # <<>>
    /\ \E i \in ItemIds :
            /\ Fts5Match(i, Strip(Val(request.query)))
            /\ items[i].is_active = 1
            /\ items[i].use_count < 5

\* C10: only active items are returned: no result row of search (any mode,
\* the smart fallback included) or of search_with_highlighting, and no label
\* suggested by autocomplete, comes from an item whose active flag is 0.
C10_OnlyActiveItems ==
    /\ ((Returned("search") \/ Returned("search_with_highlighting"))
            /\ IsNone(response.exc)) =>
            \A k \in 1..Len(Envelope.results) :
                LET r == Envelope.results[k]
                IN  /\ r.id \in ItemIds
                    /\ items[r.id].is_active = 1
                    /\ r.label = items[r.id].label
    /\ (Returned("autocomplete") /\ IsNone(response.exc)) =>
            \A k \in 1..Len(response.val) :
                \E i \in ItemIds :
                    items[i].is_active = 1 /\ items[i].label = response.val[k]

C10_Witness ==
    /\ Returned("search")
    /\ request.mode = "smart"
    /\ Called("_search_exact")
    /\ Envelope.results # <<>>
    /\ \E i \in ItemIds :
            /\ items[i].is_active = 0
            /\ exact_where_any_row(i, Strip(Val(request.query)), RequestFilters)

\* C11: tag consistency across strategies: the tags of every result are what
\* the per-item lookup yields for its id, so an item id that is in the
\* full-text result and in the exact result of one request carries the same
\* tags (same names, same order) in both.
C11_TagConsistency ==
    (Returned("search") /\ ~BlankQuery(request.query)) =>
        /\ IsNone(response.exc) =>
                \A k \in 1..Len(Envelope.results) :
                    Envelope.results[k].tags = item_tags[Envelope.results[k].id]
        /\ \A r1 \in Range(FtsResults), r2 \in Range(ExactResults) :
                r1.id = r2.id => r1.tags = r2.tags

C11_Witness ==
    /\ Returned("search")
    /\ request.mode = "exact"
    /\ ~BlankQuery(request.query)
    /\ \E r1 \in Range(FtsResults), r2 \in Range(Envelope.results) :
            /\ r1.id = r2.id
            /\ Len(r2.tags) = 2
            /\ r1.tags = r2.tags

\* C12: autocomplete boundary: for a prefix shorter than 2 characters (None
\* and the empty string included) autocomplete returns [] and neither
\* connects to the storage collaborator nor runs the index lookup; the lookup
\* runs only for a prefix of 2 characters or more.
C12_AutocompleteBoundary ==
    Returned("autocomplete") =>
        LET short == IsNone(request.prefix) \/ Len(Val(request.prefix)) < 2
        IN  /\ short =>
                    /\ IsNone(response.exc)
                    /\ response.val = <<>>
                    /\ ~Called("db.connect")
                    /\ ~Called("cursor.execute")
            /\ Called("cursor.execute") => ~short
            /\ (~short /\ IsNone(response.exc)) => Called("cursor.execute")

C12_Witness ==
    /\ Returned("autocomplete")
    /\ request.prefix = Some(S_a)
    /\ request.limit >= 1
    /\ response.val = <<>>
    /\ response.calls = <<"fts5.search_autocomplete">>
    /\ \E i \in ItemIds : AutocompleteMatch(i, S_a) /\ items[i].is_active = 1

\* the counts get_index_stats reports on the present store
IndexCounts ==
    <<get_index_stats(NoFault).val.items_indexed,
      get_index_stats(NoFault).val.categories_indexed>>

\* C13: rebuild idempotence: a rebuild leaves the items_indexed and
\* categories_indexed counts of get_index_stats as they were before it, and
\* leaves the item, category and tag rows as they were; so the counts after
\* any number of successive rebuilds equal the counts before the first.
C13_RebuildIdempotence ==
    [][(/\ pc = "idle" /\ pc' = "returned"
        /\ request'.op \in {"rebuild_index", "rebuild_indexes"}) =>
            (IndexCounts' = IndexCounts /\ Store' = Store)]_vars

C13_Witness ==
    /\ Returned("rebuild_index")
    /\ IsNone(response.exc)
    /\ Called("conn.commit")
    /\ items_fts = ItemIds
    /\ IndexCounts[1] < Cardinality(ItemIds)

ResultIds == [k \in 1..Len(Envelope.results) |-> Envelope.results[k].id]
RequestQuery == Strip(Val(request.query))
NoDateRange == [RequestFilters EXCEPT !.date_range = None]

\* the window of the claim: some field of `fields` holds a date that is
\* >= date_from (when given) and <= date_to (when given)
InDateWindow(i, date_range) ==
    LET fields == IF IsNone(date_range.fields) THEN <<"created_at">>
                  ELSE Val(date_range.fields)
    IN  \E k \in 1..Len(fields) :
            LET d == DateColumn(i, fields[k])
            IN  /\ ~IsNone(date_range.date_from) =>
                        (~IsNone(d) /\ Val(d) >= Val(date_range.date_from))
                /\ ~IsNone(date_range.date_to) =>
                        (~IsNone(d) /\ Val(d) <= Val(date_range.date_to))

\* the rows an exact-mode search returns when the date filter is `passes`
ExactRowsWhere(passes(_)) ==
    LimitOffset(exact_order({i \in ItemIds :
                    exact_where(i, RequestQuery, NoDateRange) /\ passes(i)}),
                request.limit, request.offset)

ExactDateCase ==
    /\ Returned("search") /\ ~BlankQuery(request.query)
    /\ request.mode = "exact"
    /\ ~IsNone(RequestFilters.date_range)
    /\ ~StorageFailed

\* C14 (as claimed): on the exact path an item passes the date_range filter
\* iff some field of `fields` holds a date >= date_from (when given) and
\* <= date_to (when given).
C14_DateWindowAnyField ==
    ExactDateCase =>
        LET passes(i) == InDateWindow(i, Val(RequestFilters.date_range))
        IN ResultIds = ExactRowsWhere(passes)

\* C14 (amended): on the exact path, with a date_range that names at least
\* one field, an item passes the date filter iff some field of `fields`
\* holds a date >= date_from (when given) and <= date_to (when given); with
\* an empty `fields` list no date condition is built and every item passes.
C14_DateWindowNamedFields ==
    ExactDateCase =>
        LET dr == Val(RequestFilters.date_range)
            passes(i) == dr.fields = Some(<<>>) \/ InDateWindow(i, dr)
        IN ResultIds = ExactRowsWhere(passes)

C14_Witness ==
    /\ ExactDateCase
    /\ Val(RequestFilters.date_range).fields = Some(<<"created_at", "last_used">>)
    /\ \E i \in Range(ResultIds) :
            /\ items[i].created_at > 4
            /\ items[i].last_used = Some(3)
    /\ \E i \in ItemIds :
            /\ exact_where(i, RequestQuery, NoDateRange)
            /\ i \notin Range(ResultIds)

LegacyDatesOnly ==
    /\ IsNone(RequestFilters.date_range)
    /\ ~IsNone(RequestFilters.date_from) \/ ~IsNone(RequestFilters.date_to)

\* every result was created within the bounds given
CreatedWithin(date_from, date_to) ==
    \A k \in 1..Len(Envelope.results) :
        /\ ~IsNone(date_from) => Envelope.results[k].created_at >= Val(date_from)
        /\ ~IsNone(date_to) => Envelope.results[k].created_at <= Val(date_to)

\* C15 (as claimed): with bare date_from / date_to keys and no date_range
\* object, every result of a full-text-mode search and every result of an
\* exact-mode search has a creation date within [date_from, date_to].
C15_LegacyDatesBothStrategies ==
    (/\ Returned("search") /\ ~BlankQuery(request.query)
     /\ request.mode \in {"fts5", "exact"}
     /\ LegacyDatesOnly)
    => CreatedWithin(RequestFilters.date_from, RequestFilters.date_to)

BothDateShapes ==
    /\ ~IsNone(RequestFilters.date_range)
    /\ ~IsNone(RequestFilters.date_from) \/ ~IsNone(RequestFilters.date_to)

\* the request's filters without the legacy pair
WithoutLegacyDates == [RequestFilters EXCEPT !.date_from = None, !.date_to = None]

\* C16: date-shape precedence: when the filters hold a date_range object and
\* the legacy date_from / date_to keys, the results of the full-text path and
\* of the exact path are those of the same search without the legacy keys,
\* and every result of a created_at window lies within the date_range bounds.
C16_DateRangePrecedence ==
    (/\ Returned("search") /\ ~BlankQuery(request.query)
     /\ request.mode \in SearchModes
     /\ BothDateShapes
     /\ ~StorageFailed)
    => /\ Envelope.results =
            search(request.query, request.mode, Some(WithoutLegacyDates),
                   request.limit, request.offset, NoFault, 1).val.results
       /\ Val(RequestFilters.date_range).fields \in {None, Some(<<"created_at">>)} =>
            CreatedWithin(Val(RequestFilters.date_range).date_from,
                          Val(RequestFilters.date_range).date_to)

C16_Witness ==
    /\ Returned("search") /\ ~BlankQuery(request.query)
    /\ request.mode = "fts5"
    /\ BothDateShapes
    /\ Envelope.results # <<>>
    /\ \E i \in ItemIds :
            /\ Fts5Match(i, RequestQuery) /\ items[i].is_active = 1
            /\ items[i].created_at >= Val(RequestFilters.date_from)
            /\ items[i].created_at <= Val(RequestFilters.date_to)
            /\ i \notin Range(ResultIds)

\* the envelope of the same highlighting call made without filters
HighlightingUnfiltered ==
    search_with_highlighting(request.query, None, request.limit, NoFault, 0).val

\* C17: search_with_highlighting does not depend on its filters argument: a
\* call returns the results and the count of the same call made without
\* filters, it asks the full-text index's snippet search once and no other
\* strategy, every result carries the two snippets, and mode_used is
\* 'fts5_highlighting'.  Stated for every call that returns; a call that met
\* a swallowed index failure returns no results, whatever the filters.
C17_HighlightingIgnoresFilters ==
    (Returned("search_with_highlighting") /\ IsNone(response.exc)) =>
        /\ Envelope.results =
                IF StorageFailed THEN <<>> ELSE HighlightingUnfiltered.results
        /\ Envelope.count = Len(Envelope.results)
        /\ ~StorageFailed => Envelope.count = HighlightingUnfiltered.count
        /\ Envelope.mode_used = "fts5_highlighting"
        /\ CountOf("fts5.search_with_highlighting") = 1
        /\ ~Called("fts5.search_with_filters")
        /\ ~Called("_search_exact")
        /\ \A k \in 1..Len(Envelope.results) :
                {"label_snippet", "content_snippet"} \subseteq DOMAIN Envelope.results[k]

C17_Witness ==
    /\ Returned("search_with_highlighting")
    /\ ~StorageFailed
    /\ ~IsNone(request.filters)
    /\ Val(request.filters).is_favorite = Some(TRUE)
    /\ \E k \in 1..Len(Envelope.results) :
            /\ Envelope.results[k].is_favorite = 0
            /\ Envelope.results[k].label_snippet # Envelope.results[k].label

QueryOps == {"search", "autocomplete", "search_with_highlighting", "get_stats"}
MaintenanceOps == {"rebuild_index", "rebuild_indexes", "optimize_indexes"}

\* C18: read-only queries: no call changes the item, category, tag or
\* item-tag rows; a search, autocomplete, search_with_highlighting or
\* get_stats call changes nothing at all and issues no commit; only the
\* maintenance calls commit or change the full-text index.
C18_ReadOnlyQueries ==
    [][/\ Store' = Store
       /\ request'.op \in QueryOps =>
            /\ items_fts' = items_fts
            /\ "conn.commit" \notin Range(response'.calls)
       /\ (items_fts' # items_fts \/ "conn.commit" \in Range(response'.calls)) =>
            request'.op \in MaintenanceOps]_vars

C18_Witness ==
    /\ Returned("search")
    /\ request.mode = "smart"
    /\ Called("cursor.execute")
    /\ Called("db.get_tags_by_item")
    /\ ~Called("conn.commit")
    /\ Envelope.results # <<>>
    /\ items_fts # ItemIds

\* `first` and `second` are each called once, `first` before `second`
FanOut(first, second) ==
    /\ CountOf(first) = 1
    /\ CountOf(second) = 1
    /\ \E j, k \in 1..Len(response.calls) :
            j < k /\ response.calls[j] = first /\ response.calls[k] = second

\* C19 (as claimed): every call of rebuild_indexes invokes the full-text
\* rebuild and then rebuild_all_indexes, every call of optimize_indexes
\* invokes the full-text optimize and then analyze_performance, and the
\* second step is invoked also when the first step fails.
C19_MaintenanceFanOut ==
    /\ Returned("rebuild_indexes") =>
            FanOut("fts5.rebuild_index", "index_manager.rebuild_all_indexes")
    /\ Returned("optimize_indexes") =>
            FanOut("fts5.optimize_index", "index_manager.analyze_performance")

\* C20 (as claimed): rebuild_index never raises: it returns True exactly when
\* both index rebuilds ran and the change was committed, and False for every
\* failure, a failure to obtain the connection and a failure of the second
\* rebuild included.
C20_RebuildIndexNonFatal ==
    Returned("rebuild_index") =>
        LET r == response
        IN  /\ IsNone(r.exc)
            /\ r.val \in BOOLEAN
            /\ r.val = TRUE <=>
                    /\ "cursor.execute items_fts" \in Range(r.calls)
                    /\ "cursor.execute categories_fts" \in Range(r.calls)
                    /\ "conn.commit" \in Range(r.calls)
                    /\ Range(r.calls) \cap StorageFailures = {}

\* C21: every result the exact strategy produced carries rank_score == 0,
\* reached through mode='exact' or through the smart-mode fallback.
C21_ExactRankIsZero ==
    (Returned("search") /\ IsNone(response.exc) /\ Called("_search_exact")) =>
        \A k \in 1..Len(Envelope.results) : Envelope.results[k].rank_score = 0

C21_Witness ==
    /\ Returned("search")
    /\ request.mode = "smart"
    /\ ~IsNone(request.filters)
    /\ Called("exact returned rows")
    /\ Len(Envelope.results) >= 2
    /\ \A k \in 1..Len(Envelope.results) : Envelope.results[k].rank_score = 0

\* a call on the storage collaborator failed inside the exact strategy
ExactFailed ==
    \E j, k \in 1..Len(response.calls) :
        j < k /\ response.calls[j] = "_search_exact"
              /\ response.calls[k] \in StorageFailures

\* the results are those of the exact strategy's statement
FromExact ==
    /\ Returned("search") /\ IsNone(response.exc) /\ ~HasError(Envelope)
    /\ Called("_search_exact") /\ ~ExactFailed

\* a last_used value as the sort compares it: NULL is below every date
LastUsedKey(r) == IF IsNone(r.last_used) THEN 0 - 1 ELSE Val(r.last_used)

\* the ids of the whole ordered list of the exact strategy for the request
ExactAllIds ==
    LET all == _search_exact(RequestQuery, RequestFilters, Cardinality(ItemIds), 0,
                             NoFault, 0).val[1]
    IN [k \in 1..Len(all) |-> all[k].id]

\* positions offset+1 .. offset+limit of a list
Window(s, limit, offset) ==
    LET n == IF Len(s) - offset < 0 THEN 0
             ELSE IF Len(s) - offset < limit THEN Len(s) - offset ELSE limit
    IN [k \in 1..n |-> s[offset + k]]

\* C22: exact-path ordering: of two adjacent results the first has the larger
\* use_count, or the same use_count and a last_used that is not earlier (a
\* missing last_used counts as the earliest), and limit / offset select the
\* contiguous window offset+1 .. offset+limit of that order.
C22_ExactOrdering ==
    FromExact =>
        /\ \A k \in 1..(Len(Envelope.results) - 1) :
                LET r1 == Envelope.results[k]
                    r2 == Envelope.results[k + 1]
                IN  \/ r1.use_count > r2.use_count
                    \/ /\ r1.use_count = r2.use_count
                       /\ LastUsedKey(r1) >= LastUsedKey(r2)
        /\ ResultIds = Window(ExactAllIds, request.limit, request.offset)

C22_Witness ==
    /\ FromExact
    /\ Len(Envelope.results) = 2
    /\ Envelope.results[1].use_count = Envelope.results[2].use_count
    /\ LastUsedKey(Envelope.results[1]) > LastUsedKey(Envelope.results[2])
    /\ Envelope.results[1].id > Envelope.results[2].id

\* C23: in the exact strategy an item appears at most once in the result
\* list, however many of its label, content and tags match the query.
C23_ExactIdsDistinct ==
    FromExact =>
        \A j, k \in 1..Len(Envelope.results) :
            j # k => Envelope.results[j].id # Envelope.results[k].id

C23_Witness ==
    /\ FromExact
    /\ request.limit >= 2
    /\ \E k \in 1..Len(Envelope.results) :
            LET r == Envelope.results[k]
            IN  /\ Cardinality(MatchingTags(r.id, RequestQuery)) >= 2
                /\ \A j \in 1..Len(Envelope.results) : j # k => Envelope.results[j].id # r.id

\* p occurs in s as a contiguous run of characters
IsSubstring(p, s) ==
    \E k \in 0..(Len(s) - Len(p)) : SubSeq(s, k + 1, k + Len(p)) = p

\* the query is a case-insensitive substring of the label, the content or
\* the name of a tag of the item
TextContains(i, query) ==
    \/ IsSubstring(Lower(query), Lower(items[i].label))
    \/ IsSubstring(Lower(query), Lower(items[i].content))
    \/ \E k \in 1..Len(item_tags[i]) : IsSubstring(Lower(query), Lower(item_tags[i][k]))

\* C24 (as claimed): with no filters and a limit of at least the number of
\* items, an active item is returned by the exact strategy iff the trimmed
\* query is a case-insensitive substring of its label, its content or the
\* name of one of its tags, for every query, '%' and '_' included.
C24_ExactTextIsSubstring ==
    (/\ FromExact
     /\ IsNone(request.filters)
     /\ request.limit >= Cardinality(ItemIds) /\ request.offset = 0)
    => \A i \in ItemIds :
            items[i].is_active = 1 =>
                (i \in Range(ResultIds) <=> TextContains(i, RequestQuery))

ManagerSearchOps ==
    {"fts5.search_basic", "fts5.search_with_filters", "fts5.search_with_highlighting"}

\* C25 (as claimed): search_basic, search_with_filters and
\* search_with_highlighting of the full-text manager propagate no exception
\* and return ([], 0.0) whenever the index query fails: on a syntax error and
\* on any other error raised while connecting, executing or resolving tags.
C25_ManagerNeverRaises ==
    (pc = "returned" /\ request.op \in ManagerSearchOps) =>
        /\ IsNone(response.exc)
        /\ StorageFailed => response.val = <<<<>>, 0>>

\* C26 (as claimed): every failure inside the exact strategy (a failing
\* connect(), a failing statement, a failing tag lookup) is caught inside the
\* strategy and converted to ([], 0.0); the strategy never raises.  Seen from
\* search(q, mode='exact'): an exception of the strategy is the only source
\* of an error envelope there, so no such envelope is returned, and a failed
\* call yields the envelope of an empty result.
C26_ExactStrategyNeverRaises ==
    (Returned("search") /\ ~BlankQuery(request.query) /\ request.mode = "exact") =>
        /\ IsNone(response.exc)
        /\ ~HasError(Envelope)
        /\ ExactFailed => Envelope.results = <<>>

\* the ids of the list the same search returns with limit + offset and offset 0
UnpagedIds ==
    LET e == search(request.query, request.mode, request.filters,
                    request.limit + request.offset, 0, NoFault, 1).val
    IN [k \in 1..Len(e.results) |-> e.results[k].id]

\* C27 (as claimed): pagination by offset: in every mode search(q, limit=n,
\* offset=k) returns the results at positions k .. k+n-1 of the list that
\* search(q, limit=k+n, offset=0) returns on the same store.
C27_OffsetPagination ==
    (/\ Returned("search") /\ ~BlankQuery(request.query)
     /\ request.mode \in SearchModes
     /\ ~StorageFailed)
    => ResultIds = Window(UnpagedIds, request.limit, request.offset)

\* C28: envelope well-formedness: every envelope search or
\* search_with_highlighting returns holds the keys results, count,
\* execution_time_ms, mode_used and query, with count == len(results) and
\* len(results) <= limit; when the error key is present, results == [],
\* count == 0 and execution_time_ms == 0.0.
C28_EnvelopeWellFormed ==
    ((Returned("search") \/ Returned("search_with_highlighting"))
        /\ IsNone(response.exc)) =>
        /\ EnvelopeKeys \subseteq DOMAIN Envelope
        /\ DOMAIN Envelope \subseteq EnvelopeKeys \cup {"error"}
        /\ Envelope.count = Len(Envelope.results)
        /\ Len(Envelope.results) <= request.limit
        /\ HasError(Envelope) =>
                /\ Envelope.results = <<>>
                /\ Envelope.count = 0
                /\ Envelope.execution_time_ms = 0

C28_Witness ==
    /\ Returned("search")
    /\ ~BlankQuery(request.query)
    /\ request.mode = "exact"
    /\ request.limit = 1
    /\ Envelope.count = 1
    /\ Envelope.execution_time_ms = 1
    /\ Len(ExactAllIds) = 2

\* the result row satisfies every predicate of the filter set; a date window
\* is the date_range object when present, the legacy pair otherwise
SatisfiesFilters(r, f) ==
    /\ Truthy(f.item_types) => r.type \in Range(Val(f.item_types))
    /\ Truthy(f.categories) =>
            \E j \in 1..Len(Val(f.categories)) : r.category_id = Some(Val(f.categories)[j])
    /\ ~IsNone(f.is_favorite) => (r.is_favorite = 1 <=> Val(f.is_favorite))
    /\ ~IsNone(f.is_sensitive) => (r.is_sensitive = 1 <=> Val(f.is_sensitive))
    /\ ~IsNone(f.min_use_count) => r.use_count >= Val(f.min_use_count)
    /\ IF ~IsNone(f.date_range)
       THEN Val(f.date_range).fields = Some(<<>>) \/ InDateWindow(r.id, Val(f.date_range))
       ELSE /\ ~IsNone(f.date_from) => r.created_at >= Val(f.date_from)
            /\ ~IsNone(f.date_to) => r.created_at <= Val(f.date_to)

\* C29 (as claimed): filters survive the smart fallback: every result of
\* search(q, mode='smart', filters=F) satisfies every predicate of F (type,
\* category, favourite, sensitive, use count, and the date window in either
\* shape), whether the full-text strategy or the exact fallback produced it.
C29_FiltersSurviveFallback ==
    (/\ Returned("search") /\ ~BlankQuery(request.query)
     /\ request.mode = "smart" /\ IsNone(response.exc))
    => \A k \in 1..Len(Envelope.results) :
            SatisfiesFilters(Envelope.results[k], RequestFilters)

\* C30 (as claimed): AlertService fires each alert at most once: once
\* alert_triggered has been emitted for an alert it is marked 'triggered' and
\* recorded in the history, so no later check emits it again, also when
\* update_item_alert or add_alert_history failed for it; and every alert that
\* was pending at a check is processed, whatever failed for the others.
C30_AlertFiresAtMostOnce ==
    /\ \A a \in AlertIds : emitted[a] <= 1
    /\ \A a \in AlertIds :
            emitted[a] >= 1 =>
                (alerts[a].status = "triggered" /\ a \in Range(alert_history))
    /\ \A a \in AlertIds :
            <<"pending", a>> \in Range(alert_log) =>
                <<"get_item", a>> \in Range(alert_log)

====
